---- MODULE Spec2Model ----
(***************************************************************************)
(* ChatInterfaceWithAgent (src/unnamed/part_001): the streaming coalescer  *)
(* of processInitialMessage, the React state it writes and the             *)
(* confirmation handlers.                                                  *)
(*                                                                         *)
(* chatHistory is React state: setChatHistory(updater) either runs the     *)
(* updater at once (a synchronous render of a legacy root, or React's      *)
(* eager state computation when no update is pending) or queues it until   *)
(* the next render.  The updater of flushUpdates reads and writes the      *)
(* locals of processInitialMessage when it RUNS, not when it is queued.    *)
(* Both timings are modelled: every call draws `sync`, and a queued        *)
(* updater is run by Render.                                               *)
(***************************************************************************)
EXTENDS Integers, Sequences, FiniteSets, TLC

VARIABLES
    chatHistory,          \* useState<ChatEntry[]>: the committed log
    updateQueue,          \* updaters passed to setChatHistory, not yet run
    streamingEntry,       \* local: TRUE iff streamingEntry is non-null
    accumulatedContent,   \* local: content not yet committed
    lastTokenCount,       \* local
    pendingToolCalls,     \* local: <<>> is null, <<batch>> a batch
    pendingToolResults,   \* local: sequence of {toolCall, toolResult}
    lastUpdateTime,       \* local
    closureConfirmation,  \* confirmationOptions as captured by the effect
    tokenCount,           \* useState
    isProcessing,         \* useState
    isStreaming,          \* useState
    processingTime,       \* useState
    processingStartTime,  \* useRef
    confirmationOptions,  \* useState: 0 is null, n > 0 the n-th request
    now,                  \* Date.now()
    pc,                   \* "mount", "loop" (awaiting a chunk), "done", "failed"
    handled,              \* number of chunks delivered by the agent
    requests,             \* number of confirmation requests so far
    received,             \* history: all content chunks, concatenated
    lastChunk,            \* history: kind of the chunk handled last
    kinds,                \* history: kinds of the chunks handled so far
    resultStep,           \* history: the last run of the tool-result step
    abandoned,            \* history: a confirmation was rejected
    callStep,             \* history: the last run of the tool-call step
    announced,            \* history: number of tool calls announced so far
    lastText,             \* history: content of the chunk handled last
    answer,               \* the user's answer whose setTimeout callback is due
    resolutions,          \* the calls made to the confirmation service
    rendered,             \* the timer effect's dependencies when it last ran
    intervals,            \* number of live setInterval timers
    ticks,                \* history: number of ticks so far
    sessionLog,           \* the lines appended to ~/.grok/session.log
    lastChatHistoryLength,
    loggedHistory,        \* chatHistory when the logging effect last ran
    writeFailed,          \* history: a write to the session log failed
    cli,                  \* the process of index.ts: options, stage, exit code
    showContextTooltip,
    keys,                 \* history: the keys handed to handleGlobalShortcuts
    arg,                  \* the input of the function under study
    value                 \* what the function returned for arg

vars == <<chatHistory, updateQueue, streamingEntry, accumulatedContent,
          lastTokenCount, pendingToolCalls, pendingToolResults,
          lastUpdateTime, closureConfirmation, tokenCount, isProcessing,
          isStreaming, processingTime, processingStartTime,
          confirmationOptions, now, pc, handled, requests, received,
          lastChunk, kinds, resultStep, abandoned, callStep, announced,
          lastText, answer, resolutions, rendered, intervals, ticks,
          sessionLog, lastChatHistoryLength, loggedHistory, writeFailed,
          showContextTooltip, keys, arg, value, cli>>

----------------------------------------------------------------------------
\* Bounds of the model and constants of the program

MaxChunks == 3        \* chunks the agent delivers in one stream
MaxRequests == 2      \* confirmation requests in one stream
MaxTicks == 1         \* ticks of the processing timer
MaxGateChunks == 1    \* chunks of a stream with confirmation requests
MaxLogChunks == 3     \* chunks of a stream whose session log is followed
ShortGap == 10        \* a gap between two events shorter than the throttle
StartTime == 1000     \* Date.now() when the component mounts
Second == 1000        \* setInterval(..., 1000) and the division by 1000
Throttle == 250       \* flushUpdates: now - lastUpdateTime < 250
PreviewLimit == 200   \* output.length > 200
CommandLimit == 60    \* args.command.substring(0, 60)

Delays == {ShortGap, Throttle}

\* What the agent may deliver.
Contents == {"Hi", " there"}
TokenCounts == {7}
CompletionTexts == {"OK", ""}
ErrorMessages == {"boom"}

Absent == <<>>                       \* an undefined field
Some(v) == <<v>>

BashCall ==
    [id |-> "1", name |-> "bash",
     parses |-> TRUE, path |-> Absent, file_path |-> Absent,
     command |-> Some("rm file.txt"), query |-> Absent]
CreateCall ==
    [id |-> "2", name |-> "create_file",
     parses |-> TRUE, path |-> Some("a.txt"), file_path |-> Absent,
     command |-> Absent, query |-> Absent]

Batches == {<<BashCall, CreateCall>>}

Digits == <<"0", "1", "2", "3", "4", "5", "6", "7", "8", "9">>

\* A chunk after the first announces a call of its own: when n calls have
\* been announced its id is n + 1.
LaterCall(n) ==
    [id |-> Digits[n + 2], name |-> "view_file",
     parses |-> TRUE, path |-> Some("a.txt"), file_path |-> Absent,
     command |-> Absent, query |-> Absent]
NextBatches(n) == IF n = 0 THEN Batches ELSE {<<LaterCall(n)>>}

ToolResults ==
    {[success |-> TRUE, output |-> "done", error |-> ""],
     [success |-> FALSE, output |-> "", error |-> "denied"]}
ResultChunks ==
    {[toolCall |-> c, toolResult |-> r] : c \in {BashCall}, r \in ToolResults}

----------------------------------------------------------------------------
\* ChatEntry

Entry(type, content, ts, streaming, call, calls, result) ==
    [type |-> type, content |-> content, timestamp |-> ts,
     isStreaming |-> streaming, toolCall |-> call, toolCalls |-> calls,
     toolResult |-> result]

UserEntry(text, ts) == Entry("user", text, ts, FALSE, Absent, Absent, Absent)
AssistantEntry(text, ts, streaming) ==
    Entry("assistant", text, ts, streaming, Absent, Absent, Absent)

\* newHistory.findIndex((entry) => entry.isStreaming); 0 when there is none
FindStreaming(h) ==
    IF \E i \in 1..Len(h) : h[i].isStreaming
    THEN CHOOSE i \in 1..Len(h) :
             h[i].isStreaming /\ \A j \in 1..(i - 1) : ~h[j].isStreaming
    ELSE 0

\* prev.map(entry => entry.isStreaming ? {...entry, isStreaming: false} : entry)
ClearStreaming(h) ==
    [i \in 1..Len(h) |-> [h[i] EXCEPT !.isStreaming = FALSE]]

\* `${x}` of a possibly undefined value
Show(f) == IF f = Absent THEN "undefined" ELSE f[1]
\* a || b on strings
OrElse(a, b) == IF a # Absent /\ a[1] # "" THEN a ELSE b

BashDescription_Whole(call) == "Running command: " \o Show(call.command)

BashDescription(call) ==
    LET cmd == call.command
        head == IF cmd = Absent THEN "undefined"
                ELSE SubSeq(cmd[1], 1,
                            IF Len(cmd[1]) < CommandLimit THEN Len(cmd[1])
                            ELSE CommandLimit)
        tail == IF cmd # Absent /\ Len(cmd[1]) > CommandLimit THEN "..." ELSE ""
    IN  "Running command: " \o head \o tail

Description(call) ==
    IF ~call.parses THEN "Using " \o call.name
    ELSE CASE call.name = "create_file" ->
                "Creating file: " \o Show(OrElse(call.path, call.file_path))
           [] call.name = "str_replace_editor" ->
                "Editing file: " \o Show(OrElse(call.path, call.file_path))
           [] call.name = "view_file" ->
                "Reading file: " \o Show(OrElse(call.path, call.file_path))
           [] call.name = "bash" -> BashDescription(call)
           [] call.name = "search" -> "Searching for: " \o Show(call.query)
           [] OTHER -> "Using " \o call.name

ToolCallEntry(call, ts) ==
    Entry("tool_call", Description(call), ts, FALSE, Some(call), Absent, Absent)

\* The check mark (U+2713) and the ballot X (U+2717) of the source are
\* written <check> and <cross>.
SuccessText == "<check> Success"
FailurePrefix == "<cross> Error: "

ResultContent_Unbounded(r) ==
    IF r.success
    THEN IF r.output # "" THEN r.output ELSE SuccessText
    ELSE FailurePrefix \o (IF r.error # "" THEN r.error ELSE "Unknown error")

ResultContent(r) ==
    IF r.success
    THEN IF Len(r.output) > PreviewLimit
         THEN SubSeq(r.output, 1, PreviewLimit) \o "..."
         ELSE IF r.output # "" THEN r.output ELSE SuccessText
    ELSE FailurePrefix \o (IF r.error # "" THEN r.error ELSE "Unknown error")

----------------------------------------------------------------------------
\* The locals of processInitialMessage and the state flushUpdates writes,
\* as one record that the steps of a handler pass along.

Cur ==
    [h |-> chatHistory, q |-> updateQueue, se |-> streamingEntry,
     acc |-> accumulatedContent, ltc |-> lastTokenCount,
     ptc |-> pendingToolCalls, ptr |-> pendingToolResults,
     lut |-> lastUpdateTime, tc |-> tokenCount, rs |-> resultStep,
     cs |-> callStep]

Set(s) ==
    /\ chatHistory' = s.h
    /\ updateQueue' = s.q
    /\ streamingEntry' = s.se
    /\ accumulatedContent' = s.acc
    /\ lastTokenCount' = s.ltc
    /\ pendingToolCalls' = s.ptc
    /\ pendingToolResults' = s.ptr
    /\ lastUpdateTime' = s.lut
    /\ tokenCount' = s.tc
    /\ resultStep' = s.rs
    /\ callStep' = s.cs

\* Mutant of ApplyContent: the streaming entry's content is replaced by the
\* buffer.
ApplyContent_Replaces(s, t) ==
    IF s.acc = "" THEN s
    ELSE IF ~s.se
         THEN [s EXCEPT !.h = Append(@, AssistantEntry(s.acc, t, TRUE)),
                        !.se = TRUE,
                        !.acc = ""]
         ELSE LET idx == FindStreaming(s.h) IN
              IF idx > 0
              THEN [s EXCEPT !.h[idx].content = s.acc, !.acc = ""]
              ELSE [s EXCEPT !.acc = ""]

\* "Handle accumulated content immediately"
ApplyContent(s, t) ==
    IF s.acc = "" THEN s
    ELSE IF ~s.se
         THEN [s EXCEPT !.h = Append(@, AssistantEntry(s.acc, t, TRUE)),
                        !.se = TRUE,
                        !.acc = ""]
         ELSE LET idx == FindStreaming(s.h) IN
              IF idx > 0
              THEN [s EXCEPT !.h[idx].content = @ \o s.acc, !.acc = ""]
              ELSE [s EXCEPT !.acc = ""]

\* Mutant of CallEntries: a call whose arguments do not parse gets no entry.
CallEntries_ParsedOnly(batch, t) ==
    LET Parses(call) == call.parses
        parsed == SelectSeq(batch, Parses)
    IN  [i \in 1..Len(parsed) |-> ToolCallEntry(parsed[i], t)]

\* pendingToolCalls.forEach(... newHistory.push(toolCallEntry))
CallEntries(batch, t) == [i \in 1..Len(batch) |-> ToolCallEntry(batch[i], t)]

\* Mutant of ApplyToolCalls: the batch stays pending after it was committed.
ApplyToolCalls_KeepsPending(s, t) ==
    IF s.ptc = <<>> THEN s
    ELSE LET after == ClearStreaming(s.h) \o
                        [k \in 1..Len(s.ptc[1]) |-> ToolCallEntry(s.ptc[1][k], t)]
         IN  [s EXCEPT !.h = after,
                       !.se = FALSE,
                       !.cs = [pre |-> s.h, batch |-> s.ptc, post |-> after]]

\* Mutant of ApplyToolCalls: the handle is dropped but the entry it stands
\* for keeps isStreaming.
ApplyToolCalls_KeepStreaming(s, t) ==
    IF s.ptc = <<>> THEN s
    ELSE LET after == s.h \o CallEntries(s.ptc[1], t) IN
         [s EXCEPT !.h = after,
                   !.se = FALSE,
                   !.ptc = <<>>,
                   !.cs = [pre |-> s.h, batch |-> s.ptc, post |-> after]]

\* "Handle pending tool calls"
ApplyToolCalls(s, t) ==
    IF s.ptc = <<>> THEN s
    ELSE LET batch == s.ptc[1]
             idx == FindStreaming(s.h)
             closed == IF idx > 0
                       THEN [s.h EXCEPT ![idx].isStreaming = FALSE,
                                        ![idx].toolCalls = Some(batch)]
                       ELSE s.h
             after == closed \o CallEntries(batch, t)
         IN  [s EXCEPT !.h = after,
                       !.se = FALSE,
                       !.ptc = <<>>,
                       !.cs = [pre |-> s.h, batch |-> s.ptc, post |-> after]]

\* pendingToolResults.find(...) for one entry: 0 when nothing matches
\* Mutant of FindResult: the call id is not compared.
FindResult_AnyCall(entry, results) ==
    IF entry.type = "tool_call" /\ results # <<>> THEN 1 ELSE 0

FindResult(entry, results) ==
    IF \E k \in 1..Len(results) :
           entry.type = "tool_call" /\ entry.toolCall # Absent
           /\ entry.toolCall[1].id = results[k].toolCall.id
    THEN CHOOSE k \in 1..Len(results) :
           /\ entry.toolCall[1].id = results[k].toolCall.id
           /\ \A j \in 1..(k - 1) : entry.toolCall[1].id # results[j].toolCall.id
    ELSE 0

\* the callback of newHistory.map in "Handle pending tool results"
ResultMap(entry, results) ==
    IF entry.isStreaming THEN [entry EXCEPT !.isStreaming = FALSE]
    ELSE LET k == FindResult(entry, results) IN
         IF k > 0
         THEN [entry EXCEPT !.type = "tool_result",
                            !.content = ResultContent(results[k].toolResult),
                            !.toolResult = Some(results[k].toolResult)]
         ELSE entry

\* Mutant of ApplyToolResults: the result is appended as an entry of its own
\* and the tool_call entry stays.
ApplyToolResults_Appends(s) ==
    IF s.ptr = <<>> THEN s
    ELSE LET added == [k \in 1..Len(s.ptr) |->
                         Entry("tool_result",
                               ResultContent(s.ptr[k].toolResult), 0, FALSE,
                               Some(s.ptr[k].toolCall), Absent,
                               Some(s.ptr[k].toolResult))]
             after == ClearStreaming(s.h) \o added
         IN  [s EXCEPT !.h = after,
                       !.se = FALSE,
                       !.ptr = <<>>,
                       !.rs = [pre |-> s.h, res |-> s.ptr, post |-> after]]

\* "Handle pending tool results"
\* Mutant of ApplyToolResults: streamingEntry is not reset.
ApplyToolResults_KeepsHandle(s) ==
    IF s.ptr = <<>> THEN s
    ELSE LET mapped == [i \in 1..Len(s.h) |-> ResultMap(s.h[i], s.ptr)] IN
         [s EXCEPT !.h = mapped,
                   !.ptr = <<>>,
                   !.rs = [pre |-> s.h, res |-> s.ptr, post |-> mapped]]

\* Mutant of ApplyToolResults: a result that matched no tool_call entry stays
\* pending for the next flush.
ApplyToolResults_KeepsUnmatched(s) ==
    IF s.ptr = <<>> THEN s
    ELSE LET mapped == [i \in 1..Len(s.h) |-> ResultMap(s.h[i], s.ptr)]
             found(r) == \E i \in 1..Len(s.h) :
                            /\ s.h[i].type = "tool_call"
                            /\ s.h[i].toolCall[1].id = r.toolCall.id
         IN  [s EXCEPT !.h = mapped,
                       !.se = FALSE,
                       !.ptr = SelectSeq(s.ptr, LAMBDA r : ~found(r)),
                       !.rs = [pre |-> s.h, res |-> s.ptr, post |-> mapped]]

ApplyToolResults(s) ==
    IF s.ptr = <<>> THEN s
    ELSE LET mapped == [i \in 1..Len(s.h) |-> ResultMap(s.h[i], s.ptr)] IN
         [s EXCEPT !.h = mapped,
                   !.se = FALSE,
                   !.ptr = <<>>,
                   !.rs = [pre |-> s.h, res |-> s.ptr, post |-> mapped]]

\* the updater flushUpdates passes to setChatHistory
FlushUpdater(s, t) == ApplyToolResults(ApplyToolCalls(ApplyContent(s, t), t))

\* The updaters: the flush, an appended assistant entry whose timestamp is
\* taken when the updater runs (completion: ts = -1) or was taken before
\* (the error entry), and the final clearing of isStreaming.
FlushUpdate == [k |-> "flush", content |-> "", ts |-> -1]
AppendUpdate(text, ts) == [k |-> "append", content |-> text, ts |-> ts]
ClearUpdate == [k |-> "clear", content |-> "", ts |-> -1]

RunUpdater(s, u, t) ==
    CASE u.k = "flush" -> FlushUpdater(s, t)
      [] u.k = "append" ->
            [s EXCEPT !.h = Append(@, AssistantEntry(u.content,
                                       IF u.ts < 0 THEN t ELSE u.ts, FALSE))]
      [] u.k = "clear" -> [s EXCEPT !.h = ClearStreaming(@)]

\* setChatHistory(updater): run now when nothing is queued and the call is
\* synchronous, queued for the next render otherwise
SetChatHistory(s, u, sync, t) ==
    IF sync /\ s.q = <<>> THEN RunUpdater(s, u, t)
    ELSE [s EXCEPT !.q = Append(@, u)]

RECURSIVE RunQueue(_, _)
RunQueue(s, t) ==
    IF s.q = <<>> THEN s
    ELSE RunQueue(RunUpdater([s EXCEPT !.q = Tail(@)], Head(s.q), t), t)

\* Mutant of flushUpdates: no throttle.
flushUpdates_NoThrottle(s, sync, t) ==
    IF closureConfirmation # 0 THEN s
    ELSE LET s1 == SetChatHistory(s, FlushUpdate, sync, t) IN
         [s1 EXCEPT !.tc = IF s1.ltc # 0 THEN s1.ltc ELSE @,
                    !.lut = t]

flushUpdates(s, sync, t) ==
    IF t - s.lut < Throttle THEN s
    ELSE IF closureConfirmation # 0 THEN s
    ELSE LET s1 == SetChatHistory(s, FlushUpdate, sync, t) IN
         [s1 EXCEPT !.tc = IF s1.ltc # 0 THEN s1.ltc ELSE @,
                    !.lut = t]

----------------------------------------------------------------------------
InitialMessage == "hello"

\* The component as constructed: the useState and useRef initial values
Constructed ==
    /\ chatHistory = <<>>
    /\ updateQueue = <<>>
    /\ streamingEntry = FALSE
    /\ accumulatedContent = ""
    /\ lastTokenCount = 0
    /\ pendingToolCalls = <<>>
    /\ pendingToolResults = <<>>
    /\ lastUpdateTime = StartTime
    /\ closureConfirmation = 0
    /\ tokenCount = 0
    /\ isProcessing = FALSE
    /\ isStreaming = FALSE
    /\ processingTime = 0
    /\ processingStartTime = 0
    /\ confirmationOptions = 0
    /\ now = StartTime
    /\ pc = "mount"
    /\ handled = 0
    /\ requests = 0
    /\ received = ""
    /\ lastChunk = "none"
    /\ kinds = {}
    /\ resultStep = [pre |-> <<>>, res |-> <<>>, post |-> <<>>]
    /\ abandoned = FALSE
    /\ callStep = [pre |-> <<>>, batch |-> <<>>, post |-> <<>>]
    /\ announced = 0
    /\ lastText = ""
    /\ answer = "none"
    /\ resolutions = <<>>
    /\ rendered = [isProcessing |-> FALSE, isStreaming |-> FALSE,
                   confirmationOptions |-> 0]
    /\ intervals = 0
    /\ ticks = 0
    /\ sessionLog = <<>>
    /\ lastChatHistoryLength = 0
    /\ loggedHistory = <<>>
    /\ writeFailed = FALSE
    /\ showContextTooltip = FALSE
    /\ keys = <<>>

\* The process before program.parse() runs the command action
Launched(opts) ==
    [stage |-> "parse", opts |-> opts, event |-> "none", exit |-> Absent,
     out |-> <<>>, allOperations |-> FALSE, reply |-> Absent,
     operations |-> 0, awaiting |-> FALSE]

Init ==
    /\ Constructed
    /\ arg = Absent
    /\ value = Absent
    /\ cli = Launched(Absent)

history == <<received, lastChunk, kinds, abandoned, announced, lastText>>
flags == <<isProcessing, isStreaming, processingTime, processingStartTime>>
gate == <<confirmationOptions, requests, answer, resolutions>>
timer == <<rendered, intervals, ticks>>
logging == <<sessionLog, lastChatHistoryLength, loggedHistory, writeFailed>>
shortcuts == <<showContextTooltip, keys>>
pure == <<arg, value>>

\* The mount effects: setChatHistory([]), setChatHistory([userEntry]) and
\* processInitialMessage up to its first await.
Mount ==
    /\ pc = "mount"
    /\ chatHistory' = <<UserEntry(InitialMessage, now)>>
    /\ isProcessing' = TRUE
    /\ isStreaming' = TRUE
    /\ streamingEntry' = FALSE
    /\ accumulatedContent' = ""
    /\ lastTokenCount' = 0
    /\ pendingToolCalls' = <<>>
    /\ pendingToolResults' = <<>>
    /\ lastUpdateTime' = now
    /\ closureConfirmation' = confirmationOptions
    /\ pc' = "loop"
    /\ UNCHANGED <<updateQueue, tokenCount, processingTime,
                   processingStartTime, now, handled, resultStep, callStep>>
    /\ UNCHANGED <<gate, history, timer, logging, cli, shortcuts, pure>>

\* One iteration of the for-await loop: the chunk arrives d ms after the
\* last event, its case runs, then "Flush updates more frequently".
Arrive(kind, text, d) ==
    /\ pc = "loop"
    /\ handled < MaxChunks
    /\ now' = now + d
    /\ handled' = handled + 1
    /\ lastChunk' = kind
    /\ lastText' = text
    /\ kinds' = kinds \cup {kind}
    /\ UNCHANGED <<pc, closureConfirmation, abandoned>>
    /\ UNCHANGED <<flags, gate, timer, logging, cli, shortcuts, pure>>

OnContent ==
    \E c \in Contents, d \in Delays, sync \in BOOLEAN :
        /\ Arrive("content", c, d)
        /\ Set(flushUpdates(IF c # "" THEN [Cur EXCEPT !.acc = @ \o c]
                             ELSE Cur, sync, now + d))
        /\ received' = received \o c
        /\ UNCHANGED announced

\* Mutant of OnCompletion: the content is buffered like that of a content
\* chunk and waits for the throttle.
OnCompletion_Buffered ==
    \E c \in CompletionTexts, d \in Delays, s1 \in BOOLEAN :
        /\ Arrive("completion", c, d)
        /\ Set(flushUpdates([Cur EXCEPT !.acc = @ \o c], s1, now + d))
        /\ UNCHANGED <<received, announced>>

OnCompletion ==
    \E c \in CompletionTexts, d \in Delays, s1, s2, s3 \in BOOLEAN :
        /\ Arrive("completion", c, d)
        /\ LET t == now + d
               a == flushUpdates(Cur, s1, t)
               b == SetChatHistory(a, AppendUpdate(c, -1), s2, t)
           IN  Set(flushUpdates(IF c # "" THEN b ELSE Cur, s3, t))
        /\ UNCHANGED <<received, announced>>

\* Mutant of OnTokenCount: the flush after the chunk is not throttled.
OnTokenCount_Unthrottled ==
    \E n \in TokenCounts, d \in Delays, sync \in BOOLEAN :
        /\ Arrive("token_count", "", d)
        /\ Set(flushUpdates_NoThrottle([Cur EXCEPT !.ltc = n], sync, now + d))
        /\ UNCHANGED <<received, announced>>

OnTokenCount ==
    \E n \in TokenCounts, d \in Delays, sync \in BOOLEAN :
        /\ Arrive("token_count", "", d)
        /\ Set(flushUpdates([Cur EXCEPT !.ltc = n], sync, now + d))
        /\ UNCHANGED <<received, announced>>

OnToolCalls ==
    \E batch \in NextBatches(announced), d \in Delays, sync \in BOOLEAN :
        /\ Arrive("tool_calls", "", d)
        /\ Set(flushUpdates([Cur EXCEPT !.ptc = <<batch>>], sync, now + d))
        /\ announced' = announced + Len(batch)
        /\ UNCHANGED received

OnToolResult ==
    \E r \in ResultChunks, d \in Delays, sync \in BOOLEAN :
        /\ Arrive("tool_result", "", d)
        /\ Set(flushUpdates([Cur EXCEPT !.ptr = Append(@, r)], sync, now + d))
        /\ UNCHANGED <<received, announced>>

OnDone ==
    \E d \in Delays, s1, s2 \in BOOLEAN :
        /\ Arrive("done", "", d)
        /\ Set(flushUpdates(flushUpdates(Cur, s1, now + d), s2, now + d))
        /\ UNCHANGED <<received, announced>>

\* The stream is exhausted: "Final flush and cleanup", then the code after
\* the try block.
StreamEnd ==
    \E d \in Delays, s1, s2 \in BOOLEAN :
        /\ pc = "loop"
        /\ now' = now + d
        /\ LET t == now + d
               a == flushUpdates(Cur, s1, t)
           IN  Set(IF a.se THEN SetChatHistory(a, ClearUpdate, s2, t) ELSE a)
        /\ isStreaming' = FALSE
        /\ isProcessing' = FALSE
        /\ processingStartTime' = 0
        /\ pc' = "done"
        /\ UNCHANGED <<closureConfirmation, processingTime, handled>>
        /\ UNCHANGED <<gate, history, timer, logging, cli, shortcuts, pure>>

\* Mutant of StreamError: the error leaves the catch block again, so the
\* statements after it do not run.
StreamError_Rethrown ==
    \E m \in ErrorMessages, d \in {ShortGap}, sync \in BOOLEAN :
        /\ pc = "loop"
        /\ now' = now + d
        /\ Set(SetChatHistory(Cur, AppendUpdate("Error: " \o m, now + d),
                              sync, now + d))
        /\ isStreaming' = FALSE
        /\ pc' = "failed"
        /\ UNCHANGED <<closureConfirmation, processingTime, handled,
                       isProcessing, processingStartTime>>
        /\ UNCHANGED <<gate, history, timer, logging, cli, shortcuts, pure>>

\* The stream throws: the catch block, then the code after the try block.
StreamError ==
    \E m \in ErrorMessages, d \in {ShortGap}, sync \in BOOLEAN :
        /\ pc = "loop"
        /\ now' = now + d
        /\ Set(SetChatHistory(Cur, AppendUpdate("Error: " \o m, now + d),
                              sync, now + d))
        /\ isStreaming' = FALSE
        /\ isProcessing' = FALSE
        /\ processingStartTime' = 0
        /\ pc' = "failed"
        /\ UNCHANGED <<closureConfirmation, processingTime, handled>>
        /\ UNCHANGED <<gate, history, timer, logging, cli, shortcuts, pure>>

\* React renders: the queued updaters run in order.
Render ==
    /\ updateQueue # <<>>
    /\ Set(RunQueue(Cur, now))
    /\ UNCHANGED <<closureConfirmation, now, pc, handled>>
    /\ UNCHANGED <<flags, gate, history, timer, logging, cli, shortcuts, pure>>

locals == <<chatHistory, updateQueue, streamingEntry, accumulatedContent,
            lastTokenCount, pendingToolCalls, pendingToolResults,
            lastUpdateTime, closureConfirmation, resultStep, callStep>>

\* handleConfirmationRequest
ConfirmationRequest ==
    /\ pc = "loop"
    /\ requests < MaxRequests
    /\ requests' = requests + 1
    /\ confirmationOptions' = requests + 1
    /\ UNCHANGED <<locals, tokenCount, now, pc, handled, answer, resolutions>>
    /\ UNCHANGED <<flags, history, timer, logging, cli, shortcuts, pure>>

\* The dialog is rendered while confirmationOptions is set.
DialogOpen == confirmationOptions # 0

\* The dialog calls back once for a request: no answer is on its way yet.
Unanswered == answer = "none"

\* handleConfirmation: the dialog's onConfirm; the work is deferred with
\* setTimeout(..., 0)
OnConfirm ==
    \E dontAskAgain \in BOOLEAN :
        /\ DialogOpen
        /\ Unanswered
        /\ answer' = IF dontAskAgain THEN "approveAll" ELSE "approve"
        /\ UNCHANGED <<locals, tokenCount, now, pc, handled,
                       confirmationOptions, requests, resolutions>>
        /\ UNCHANGED <<flags, history, timer, logging, cli, shortcuts, pure>>

\* handleRejection: the dialog's onReject; the work is deferred likewise
OnReject ==
    /\ DialogOpen
    /\ Unanswered
    /\ answer' = "reject"
    /\ UNCHANGED <<locals, tokenCount, now, pc, handled,
                   confirmationOptions, requests, resolutions>>
    /\ UNCHANGED <<flags, history, timer, logging, cli, shortcuts, pure>>

\* A call of the confirmation service for the request on display.
Resolution(op, dontAskAgain) ==
    [request |-> confirmationOptions, op |-> op, dontAskAgain |-> dontAskAgain]

\* Mutant of HandleConfirmation: the gate is cleared, the service is not
\* called.
HandleConfirmation_NoDelivery ==
    /\ answer \in {"approve", "approveAll"}
    /\ answer' = "none"
    /\ confirmationOptions' = 0
    /\ UNCHANGED <<locals, tokenCount, now, pc, handled, requests,
                   resolutions>>
    /\ UNCHANGED <<flags, history, timer, logging, cli, shortcuts, pure>>

\* Mutant of HandleConfirmation: the approval resets the processing state as
\* the rejection does.
HandleConfirmation_ResetsFlags ==
    /\ answer \in {"approve", "approveAll"}
    /\ answer' = "none"
    /\ resolutions' = Append(resolutions,
                             Resolution("confirmOperation",
                                        answer = "approveAll"))
    /\ confirmationOptions' = 0
    /\ isProcessing' = FALSE
    /\ isStreaming' = FALSE
    /\ tokenCount' = 0
    /\ processingTime' = 0
    /\ processingStartTime' = 0
    /\ UNCHANGED <<locals, now, pc, handled, requests>>
    /\ UNCHANGED <<history, timer, logging, cli, shortcuts, pure>>

\* the deferred callback of handleConfirmation
HandleConfirmation ==
    /\ answer \in {"approve", "approveAll"}
    /\ answer' = "none"
    /\ resolutions' = Append(resolutions,
                             Resolution("confirmOperation",
                                        answer = "approveAll"))
    /\ confirmationOptions' = 0
    /\ UNCHANGED <<locals, tokenCount, now, pc, handled, requests>>
    /\ UNCHANGED <<flags, history, timer, logging, cli, shortcuts, pure>>

\* Mutant of HandleRejection: the flags are left as they are.
HandleRejection_KeepsFlags ==
    /\ answer = "reject"
    /\ answer' = "none"
    /\ resolutions' = Append(resolutions, Resolution("rejectOperation", FALSE))
    /\ confirmationOptions' = 0
    /\ abandoned' = TRUE
    /\ UNCHANGED <<locals, tokenCount, now, pc, handled, requests, received,
                   lastChunk, kinds, announced, lastText>>
    /\ UNCHANGED <<flags, timer, logging, cli, shortcuts, pure>>

\* the deferred callback of handleRejection
HandleRejection ==
    /\ answer = "reject"
    /\ answer' = "none"
    /\ resolutions' = Append(resolutions, Resolution("rejectOperation", FALSE))
    /\ confirmationOptions' = 0
    /\ isProcessing' = FALSE
    /\ isStreaming' = FALSE
    /\ tokenCount' = 0
    /\ processingTime' = 0
    /\ processingStartTime' = 0
    /\ abandoned' = TRUE
    /\ UNCHANGED <<locals, now, pc, handled, requests, received, lastChunk,
                   kinds, announced, lastText>>
    /\ UNCHANGED <<timer, logging, cli, shortcuts, pure>>

\* The dependencies of the timer effect.
Deps ==
    [isProcessing |-> isProcessing, isStreaming |-> isStreaming,
     confirmationOptions |-> confirmationOptions]

\* Mutant of Cleanup: the effect returns no cleanup.
Cleanup_Missing(n) == n

\* The cleanup the last run of the effect returned: clearInterval of the
\* interval it created, if it created one.
Cleanup(n) == IF n > 0 THEN n - 1 ELSE 0

\* A render after which the dependencies of the timer effect differ: the
\* last run's cleanup, then the effect.
TimerEffect ==
    /\ rendered # Deps
    /\ rendered' = Deps
    /\ IF confirmationOptions # 0
       THEN /\ intervals' = Cleanup(intervals)
            /\ UNCHANGED <<processingTime, processingStartTime>>
       ELSE IF ~isProcessing /\ ~isStreaming
       THEN /\ intervals' = Cleanup(intervals)
            /\ processingTime' = 0
            /\ UNCHANGED processingStartTime
       ELSE /\ intervals' = Cleanup(intervals) + 1
            /\ processingStartTime' =
                  IF processingStartTime = 0 THEN now ELSE processingStartTime
            /\ UNCHANGED processingTime
    /\ UNCHANGED <<locals, tokenCount, now, pc, handled, isProcessing,
                   isStreaming, ticks>>
    /\ UNCHANGED <<gate, history, logging, cli, shortcuts, pure>>

\* The interval's callback, a second after the last event.
Tick ==
    /\ intervals > 0
    /\ ticks < MaxTicks
    /\ ticks' = ticks + 1
    /\ now' = now + Second
    /\ processingTime' = (now' - processingStartTime) \div Second
    /\ UNCHANGED <<locals, tokenCount, pc, handled, isProcessing, isStreaming,
                   processingStartTime, rendered, intervals>>
    /\ UNCHANGED <<gate, history, logging, cli, shortcuts, pure>>

\* JSON.stringify(entry): the fields that are undefined are left out.
JsonLine(e) ==
    [f \in {"type", "content", "timestamp", "isStreaming"}
            \cup {g \in {"toolCall", "toolCalls", "toolResult"} :
                     e[g] # Absent} |-> e[f]]

\* Mutant of NewEntries: the whole log is taken.
NewEntries_All(h, n) == h

\* chatHistory.slice(lastChatHistoryLength.current)
\* Mutant of NewEntries: the slice starts at the entry logged last.
NewEntries_FromLast(h, n) == IF n = 0 THEN h ELSE SubSeq(h, n, Len(h))

NewEntries(h, n) == SubSeq(h, n + 1, Len(h))

\* Mutant of SessionLogEffect: there is no catch, a failed write ends the
\* stream's processing.
SessionLogEffect_Uncaught ==
    \E ok \in BOOLEAN :
        LET newEntries == NewEntries(chatHistory, lastChatHistoryLength) IN
        /\ loggedHistory # chatHistory
        /\ loggedHistory' = chatHistory
        /\ IF newEntries # <<>> /\ ok
           THEN sessionLog' = sessionLog \o
                    [i \in 1..Len(newEntries) |-> JsonLine(newEntries[i])]
           ELSE UNCHANGED sessionLog
        /\ writeFailed' = (writeFailed \/ (newEntries # <<>> /\ ~ok))
        /\ lastChatHistoryLength' = Len(chatHistory)
        /\ pc' = IF newEntries # <<>> /\ ~ok THEN "failed" ELSE pc
        /\ UNCHANGED <<locals, tokenCount, now, handled>>
        /\ UNCHANGED <<flags, gate, history, timer, cli, shortcuts, pure>>

\* The session logging effect, after a render that changed chatHistory: the
\* new entries are appended as one line each, unless the write fails, and
\* the length is remembered either way.
SessionLogEffect ==
    \E ok \in BOOLEAN :
        LET newEntries == NewEntries(chatHistory, lastChatHistoryLength) IN
        /\ loggedHistory # chatHistory
        /\ loggedHistory' = chatHistory
        /\ IF newEntries # <<>> /\ ok
           THEN sessionLog' = sessionLog \o
                    [i \in 1..Len(newEntries) |-> JsonLine(newEntries[i])]
           ELSE UNCHANGED sessionLog
        /\ writeFailed' = (writeFailed \/ (newEntries # <<>> /\ ~ok))
        /\ lastChatHistoryLength' = Len(chatHistory)
        /\ UNCHANGED <<locals, tokenCount, now, pc, handled>>
        /\ UNCHANGED <<flags, gate, history, timer, cli, shortcuts, pure>>

\* The coalescer: the agent's stream and React's renders.
Next ==
    \/ Mount
    \/ OnContent
    \/ OnCompletion
    \/ OnTokenCount
    \/ OnToolCalls
    \/ OnToolResult
    \/ OnDone
    \/ StreamEnd
    \/ StreamError
    \/ Render

Spec == Init /\ [][Next]_vars

\* The confirmation gate and the processing timer: a tool of the agent asks
\* for a confirmation while the stream runs, the user answers, and the timer
\* effect follows the flags.  The gate's handlers and the timer write none
\* of the coalescer's variables, so the stream is kept short here, to content
\* and token_count chunks, with every update of the log applied at once.
GateNext ==
    \/ Mount
    \/ handled < MaxGateChunks /\ OnContent /\ updateQueue' = <<>>
    \/ handled < MaxGateChunks /\ OnTokenCount /\ updateQueue' = <<>>
    \/ StreamEnd /\ updateQueue' = <<>>
    \/ ConfirmationRequest
    \/ OnConfirm
    \/ OnReject
    \/ HandleConfirmation
    \/ HandleRejection
    \/ TimerEffect
    \/ Tick

GateSpec == Init /\ [][GateNext]_vars

\* The session log: a short stream of content, tool_calls and tool_result
\* chunks with its renders, and the logging effect after them.  One content
\* text is enough here.
LogNext ==
    \/ Mount
    \/ handled < MaxLogChunks /\ OnContent /\ lastText' = "Hi"
    \/ handled < MaxLogChunks /\ OnToolCalls
    \/ handled < MaxLogChunks /\ OnToolResult
    \/ StreamEnd
    \/ Render
    \/ SessionLogEffect

LogSpec == Init /\ [][LogNext]_vars

----------------------------------------------------------------------------
\* The functions of the flush on their own: arg is drawn from a bounded set
\* of inputs and each action applies one function to it.

MaxOutput == 500        \* the longest tool output and command tried

\* The characters a..b of a text whose k-th character is the last digit of k
RECURSIVE Span(_, _)
Span(a, b) ==
    IF a > b THEN ""
    ELSE IF a = b THEN Digits[(a % 10) + 1]
    ELSE LET m == (a + b) \div 2 IN Span(a, m) \o Span(m + 1, b)

Text(n) == Span(1, n)

Texts == {Text(n) : n \in 0..MaxOutput}

\* toolResult as the agent delivers it; an absent output or error reads as ""
ResultInputs == [success : BOOLEAN, output : Texts, error : {"", "denied"}]

\* toolCall.function: the name and the outcome of JSON.parse(arguments)
ToolNames ==
    {"create_file", "str_replace_editor", "view_file", "bash", "search",
     "todo_write"}
CallInputs ==
    [id : {"1"}, name : ToolNames, parses : BOOLEAN,
     path : {Absent, Some(""), Some("a.txt")},
     file_path : {Absent, Some("b.txt")},
     command : {Absent, Some("rm file.txt"), Some(Text(CommandLimit)),
                Some(Text(CommandLimit + 1)), Some(Text(MaxOutput))},
     query : {Absent, Some("foo")}]

\* The locals and the history one run of the flush updater starts from: a
\* batch with a call whose arguments JSON.parse rejects, with or without
\* buffered content, a streaming entry, and a result for an earlier call or
\* for a call of the batch.
UnparsedCall ==
    [id |-> "3", name |-> "bash",
     parses |-> FALSE, path |-> Absent, file_path |-> Absent,
     command |-> Absent, query |-> Absent]
EarlierCall ==
    [id |-> "0", name |-> "view_file",
     parses |-> TRUE, path |-> Some("a.txt"), file_path |-> Absent,
     command |-> Absent, query |-> Absent]
UnparsedBatches ==
    {<<UnparsedCall>>, <<BashCall, UnparsedCall>>, <<UnparsedCall, CreateCall>>}
FlushHistories ==
    {<<UserEntry(InitialMessage, StartTime)>>,
     <<UserEntry(InitialMessage, StartTime),
       AssistantEntry("Hi", StartTime, TRUE)>>,
     <<UserEntry(InitialMessage, StartTime),
       ToolCallEntry(EarlierCall, StartTime)>>,
     <<UserEntry(InitialMessage, StartTime),
       ToolCallEntry(EarlierCall, StartTime),
       AssistantEntry("Hi", StartTime, TRUE)>>}
FlushResults(h, batch) ==
    {<<>>} \cup
    {<<[toolCall |-> c, toolResult |-> r]>> :
        c \in {h[i].toolCall[1] : i \in {j \in 1..Len(h) :
                                            h[j].type = "tool_call"}}
              \cup {batch[k] : k \in 1..Len(batch)},
        r \in ToolResults}
FlushInputs ==
    UNION {UNION {UNION {
        {[h |-> h, q |-> <<>>, se |-> FindStreaming(h) > 0, acc |-> acc,
          ltc |-> 0, ptc |-> Some(batch), ptr |-> res, lut |-> StartTime,
          tc |-> 0, rs |-> [pre |-> <<>>, res |-> <<>>, post |-> <<>>],
          cs |-> [pre |-> <<>>, batch |-> <<>>, post |-> <<>>]] :
              res \in FlushResults(h, batch)} :
          acc \in {"", " there"}} :
        batch \in UnparsedBatches} :
      h \in FlushHistories}

Input(fn, xs) == {Some([fn |-> fn, x |-> x]) : x \in xs}

Applied(fn) == arg # Absent /\ arg[1].fn = fn /\ value # Absent

\* resultContent of the tool-result step for one matching result
ShowResult ==
    /\ arg # Absent /\ arg[1].fn = "ResultContent" /\ value = Absent
    /\ value' = Some(ResultContent(arg[1].x))
    /\ UNCHANGED <<arg, locals, tokenCount, now, pc, handled>>
    /\ UNCHANGED <<flags, gate, history, timer, logging, cli, shortcuts>>

\* description of the tool-call step for one call of the batch
Describe ==
    /\ arg # Absent /\ arg[1].fn = "Description" /\ value = Absent
    /\ value' = Some(Description(arg[1].x))
    /\ UNCHANGED <<arg, locals, tokenCount, now, pc, handled>>
    /\ UNCHANGED <<flags, gate, history, timer, logging, cli, shortcuts>>

\* one run of the updater of flushUpdates
Flush ==
    /\ arg # Absent /\ arg[1].fn = "FlushUpdater" /\ value = Absent
    /\ value' = Some(FlushUpdater(arg[1].x, now))
    /\ UNCHANGED <<arg, locals, tokenCount, now, pc, handled>>
    /\ UNCHANGED <<flags, gate, history, timer, logging, cli, shortcuts>>

PureInit ==
    /\ Constructed
    /\ cli = Launched(Absent)
    /\ arg \in Input("ResultContent", ResultInputs)
              \cup Input("Description", CallInputs)
              \cup Input("FlushUpdater", FlushInputs)
    /\ value = Absent

PureNext ==
    \/ ShowResult
    \/ Describe
    \/ Flush

PureSpec == PureInit /\ [][PureNext]_vars

----------------------------------------------------------------------------
\* The process (src/unnamed/part_003): the command action, headless
\* processing and the handlers registered with process.on.

\* What the command line, the environment and the settings file provide, and
\* which call of the action throws, if any
LaunchOptions ==
    [apiKeyOption : BOOLEAN, apiKeyEnv : BOOLEAN, apiKeySetting : BOOLEAN,
     prompt : BOOLEAN, forceTty : BOOLEAN, isTTY : BOOLEAN,
     throws : {"none", "chdir", "GrokAgent"}]

\* options.apiKey || process.env.GROK_API_KEY || loadApiKey()
ApiKey(o) == o.apiKeyOption \/ o.apiKeyEnv \/ o.apiKeySetting

Running == cli.exit = Absent /\ cli.opts # Absent

Exit(code, event) ==
    cli' = [cli EXCEPT !.stage = "exited", !.event = event, !.exit = Some(code)]

ExitFrame ==
    /\ UNCHANGED <<locals, tokenCount, now, pc, handled, pure>>
    /\ UNCHANGED <<flags, gate, history, timer, logging, shortcuts>>

\* A line on standard output: a text, or a JSON object.
TextLine(text) == [json |-> Absent, text |-> Some(text)]
ObjectLine(object) == [json |-> Some(object), text |-> Absent]

\* what saveCommandLineSettings logs for the key, after a check mark
SavedNotice == "API key saved to ~/.grok/user-settings.json"

\* program.action up to the headless call or render.  A key given on the
\* command line is saved first, and the save is reported with console.log
\* unless the settings manager throws (then console.warn reports it on
\* standard error).
CommandAction ==
    /\ Running /\ cli.stage = "parse"
    /\ \E saved \in BOOLEAN :
          LET o == cli.opts[1]
              logged == IF o.apiKeyOption /\ saved
                        THEN <<TextLine(SavedNotice)>> ELSE <<>>
              left == [cli EXCEPT !.out = logged, !.stage = "exited",
                                  !.exit = Some(1)]
          IN  IF o.throws = "chdir" THEN Exit(1, "throw")
              ELSE IF ~ApiKey(o) THEN Exit(1, "none")
              ELSE IF o.prompt
              THEN cli' = [cli EXCEPT !.out = logged, !.stage = "headless"]
              ELSE IF ~o.forceTty /\ ~o.isTTY THEN cli' = left
              ELSE IF o.throws = "GrokAgent"
              THEN cli' = [left EXCEPT !.event = "throw"]
              ELSE cli' = [cli EXCEPT !.out = logged, !.stage = "interactive"]
    /\ ExitFrame

MaxReply == 2           \* chat entries the agent returns

\* The chat entries agent.processUserMessage may return.
ReplyEntries ==
    {UserEntry("hello", 0),
     AssistantEntry("Hi", 0, FALSE),
     Entry("assistant", "", 0, FALSE, Absent, Some(<<BashCall>>), Absent),
     Entry("assistant", "Hi", 0, FALSE, Absent, Some(<<>>), Absent),
     Entry("tool_call", "Running command: rm file.txt", 0, FALSE,
           Some(BashCall), Absent, Absent),
     Entry("tool_result", "done", 0, FALSE, Some(BashCall), Absent, Absent),
     Entry("tool_result", "done", 0, FALSE, Absent, Absent, Absent)}
Replies == UNION {[1..n -> ReplyEntries] : n \in 0..MaxReply}

\* the element of tool_calls made of a tool call of the entry
ToolCallParam(toolCall) ==
    [id |-> toolCall.id, type |-> "function",
     function |-> [name |-> toolCall.name,
                   arguments |-> [f \in {"parses", "path", "file_path",
                                         "command", "query"} |-> toolCall[f]]]]

\* the switch over entry.type: the messages pushed for one entry
Message(entry) ==
    CASE entry.type = "user" ->
            <<[role |-> "user", content |-> entry.content,
               tool_calls |-> Absent, tool_call_id |-> Absent]>>
      [] entry.type = "assistant" ->
            <<[role |-> "assistant", content |-> entry.content,
               tool_calls |->
                  IF entry.toolCalls # Absent /\ Len(entry.toolCalls[1]) > 0
                  THEN Some([k \in 1..Len(entry.toolCalls[1]) |->
                                ToolCallParam(entry.toolCalls[1][k])])
                  ELSE Absent,
               tool_call_id |-> Absent]>>
      [] entry.type = "tool_result" ->
            IF entry.toolCall # Absent
            THEN <<[role |-> "tool", content |-> entry.content,
                    tool_calls |-> Absent,
                    tool_call_id |-> Some(entry.toolCall[1].id)]>>
            ELSE <<>>
      [] OTHER -> <<>>

\* for (const entry of chatEntries): the messages in the order of the entries
RECURSIVE Messages(_)
Messages(chatEntries) ==
    IF chatEntries = <<>> THEN <<>>
    ELSE Message(Head(chatEntries)) \o Messages(Tail(chatEntries))

\* JSON.stringify(message): the properties that are undefined are left out.
Stringify(message) ==
    [f \in {"role", "content"}
            \cup {g \in {"tool_calls", "tool_call_id"} : message[g] # Absent}
       |-> IF f \in {"tool_calls", "tool_call_id"} THEN message[f][1]
           ELSE message[f]]

\* the catch clause of processPromptHeadless
HeadlessCatch(m) ==
    cli' = [cli EXCEPT
              !.out = Append(@, ObjectLine(Stringify(
                         [role |-> "assistant", content |-> "Error: " \o m,
                          tool_calls |-> Absent, tool_call_id |-> Absent]))),
              !.stage = "exited", !.event = "throw", !.exit = Some(1)]

\* Mutant of HeadlessStart: the session flag is not set.
HeadlessStart_NoFlag ==
    /\ Running /\ cli.stage = "headless"
    /\ IF cli.opts[1].throws = "GrokAgent"
       THEN \E m \in ErrorMessages : HeadlessCatch(m)
       ELSE cli' = [cli EXCEPT !.stage = "processing"]
    /\ ExitFrame

\* processPromptHeadless up to its await: the agent is made and the
\* confirmation service is told to approve every operation of the session.
HeadlessStart ==
    /\ Running /\ cli.stage = "headless"
    /\ IF cli.opts[1].throws = "GrokAgent"
       THEN \E m \in ErrorMessages : HeadlessCatch(m)
       ELSE cli' = [cli EXCEPT !.stage = "processing", !.allOperations = TRUE]
    /\ ExitFrame

MaxOperations == 2      \* operations of the agent that need an approval

\* A tool of the agent asks the confirmation service before it acts.  With
\* the session flag set the service approves at once; without it the service
\* asks for a dialog and the operation waits for the answer.
Operation ==
    /\ Running /\ cli.stage = "processing"
    /\ ~cli.awaiting
    /\ cli.operations < MaxOperations
    /\ cli' = IF cli.allOperations
              THEN [cli EXCEPT !.operations = @ + 1]
              ELSE [cli EXCEPT !.awaiting = TRUE]
    /\ ExitFrame

\* agent.processUserMessage settles.  Its entries are converted and printed,
\* the action returns and the process ends; or it throws and the catch
\* clause prints the error and exits.
ProcessUserMessage ==
    /\ Running /\ cli.stage = "processing"
    /\ ~cli.awaiting
    /\ \/ \E chatEntries \in Replies :
             LET messages == Messages(chatEntries) IN
             cli' = [cli EXCEPT
                       !.reply = Some(chatEntries),
                       !.out = @ \o [k \in 1..Len(messages) |->
                                       ObjectLine(Stringify(messages[k]))],
                       !.stage = "exited", !.exit = Some(0)]
       \/ \E m \in ErrorMessages : HeadlessCatch(m)
    /\ ExitFrame

Sigterm_Failure == Running /\ Exit(1, "SIGTERM") /\ ExitFrame

Sigterm == Running /\ Exit(0, "SIGTERM") /\ ExitFrame

UncaughtException == Running /\ Exit(1, "uncaughtException") /\ ExitFrame

UnhandledRejection == Running /\ Exit(1, "unhandledRejection") /\ ExitFrame

ExitInit ==
    /\ Constructed
    /\ arg = Absent
    /\ value = Absent
    /\ cli \in {Launched(Some(o)) : o \in LaunchOptions}

ExitNext ==
    \/ CommandAction
    \/ HeadlessStart
    \/ Operation
    \/ ProcessUserMessage
    \/ Sigterm
    \/ UncaughtException
    \/ UnhandledRejection

ExitSpec == ExitInit /\ [][ExitNext]_vars

----------------------------------------------------------------------------
\* handleGlobalShortcuts, called by the input handler for every key

MaxKeys == 2            \* keys pressed

\* (str, key) as the input handler passes them; key.name may be undefined
Keys ==
    [ctrl : BOOLEAN, str : {"i", "a", ""},
     name : {Absent, Some("i"), Some("a")}]

\* key.ctrl && (str === "i" || key.name === "i")
IsCtrlI(key) == key.ctrl /\ (key.str = "i" \/ key.name = Some("i"))

ShortcutFrame ==
    /\ UNCHANGED <<locals, tokenCount, now, pc, handled, arg>>
    /\ UNCHANGED <<flags, gate, history, timer, logging, cli>>

\* Mutant of HandleGlobalShortcuts: the ctrl modifier is not looked at.
HandleGlobalShortcuts_AnyI ==
    /\ Len(keys) < MaxKeys
    /\ \E key \in Keys :
         /\ keys' = Append(keys, [key |-> key, before |-> showContextTooltip])
         /\ IF key.str = "i" \/ key.name = Some("i")
            THEN showContextTooltip' = ~showContextTooltip
                 /\ value' = Some(TRUE)
            ELSE showContextTooltip' = showContextTooltip
                 /\ value' = Some(FALSE)
    /\ ShortcutFrame

\* value is what the call returned; keys remembers each key and the
\* tooltip's visibility before it.
HandleGlobalShortcuts ==
    /\ Len(keys) < MaxKeys
    /\ \E key \in Keys :
         /\ keys' = Append(keys, [key |-> key, before |-> showContextTooltip])
         /\ IF IsCtrlI(key)
            THEN showContextTooltip' = ~showContextTooltip
                 /\ value' = Some(TRUE)
            ELSE showContextTooltip' = showContextTooltip
                 /\ value' = Some(FALSE)
    /\ ShortcutFrame

ShortcutNext ==
    \/ HandleGlobalShortcuts

ShortcutSpec == Init /\ [][ShortcutNext]_vars

----------------------------------------------------------------------------
\* What the component returns for the current state

Element(el, entries, flag) == [el |-> el, entries |-> entries, flag |-> flag]

\* {cond && <e/>}
Shown(cond, e) == IF cond THEN <<e>> ELSE <<>>

\* Mutant of RenderTree: the history above the tooltip is always rendered.
RenderTree_HistoryKept ==
    <<Element("ChatHistory", chatHistory, FALSE),
      Element("ContextTooltip", <<>>, showContextTooltip)>>
    \o Shown(DialogOpen, Element("ChatHistory", chatHistory, TRUE))
    \o Shown(DialogOpen, Element("ConfirmationDialog", <<>>, FALSE))
    \o Shown(~DialogOpen, Element("ChatInput", <<>>, isProcessing))

\* The elements of the returned tree, top to bottom; flag is
\* isConfirmationActive of ChatHistory, isVisible of ContextTooltip and
\* isProcessing of ChatInput.
RenderTree ==
    Shown(chatHistory = <<>> /\ ~DialogOpen, Element("Banner", <<>>, FALSE))
    \o Shown(~DialogOpen, Element("ChatHistory", chatHistory, FALSE))
    \o <<Element("ContextTooltip", <<>>, showContextTooltip)>>
    \o Shown(DialogOpen, Element("ChatHistory", chatHistory, TRUE))
    \o Shown(DialogOpen, Element("ConfirmationDialog", <<>>, FALSE))
    \o Shown(~DialogOpen, Element("ChatInput", <<>>, isProcessing))
    \o Shown(~DialogOpen, Element("StatusBar", <<>>, FALSE))
    \o Shown(isProcessing /\ ~DialogOpen,
             Element("LoadingSpinner", <<>>, FALSE))

\* isConfirmationActive as handed to useInputHandler
InputHandlerProps == [isConfirmationActive |-> DialogOpen]

----------------------------------------------------------------------------
\* Properties

Streaming(h) == {i \in 1..Len(h) : h[i].isStreaming}
Assistants(h) == {i \in 1..Len(h) : h[i].type = "assistant"}

\* The text the coalescer has written into the log: the contents of the
\* assistant entries, in log order, without the entries of completion chunks.
RECURSIVE StreamedText(_)
StreamedText(h) ==
    IF h = <<>> THEN ""
    ELSE (IF Head(h).type = "assistant" /\ Head(h).content \notin CompletionTexts
          THEN Head(h).content ELSE "") \o StreamedText(Tail(h))

\* processInitialMessage has returned and React has nothing left to run.
Settled == pc = "done" /\ updateQueue = <<>>

BuffersEmpty ==
    /\ accumulatedContent = ""
    /\ pendingToolCalls = <<>>
    /\ pendingToolResults = <<>>

FlushQueued == \E i \in 1..Len(updateQueue) : updateQueue[i].k = "flush"

\* C1: once a stream that ended normally has been processed, no content is
\* left in the buffer and the text of every content chunk received is in the
\* chat history; after "hello" and the stream content "Hi", content " there",
\* done, the history is the user entry "hello" followed by one assistant
\* entry "Hi there" that is not streaming.
C1_NoContentLost ==
    Settled =>
        /\ accumulatedContent = ""
        /\ StreamedText(chatHistory) = received
        /\ (handled = 3 /\ received = "Hi there" /\ lastChunk = "done") =>
              /\ Len(chatHistory) = 2
              /\ chatHistory[1].type = "user"
              /\ chatHistory[1].content = "hello"
              /\ chatHistory[2].type = "assistant"
              /\ chatHistory[2].content = "Hi there"
              /\ ~chatHistory[2].isStreaming

\* C2: when a done or completion chunk has been handled, everything that was
\* buffered (content, tool calls, tool results) has been committed: the
\* buffers are empty, or the flush that empties them is queued for the next
\* render, whatever the time since the previous flush.
C2_DoneForcesFlush ==
    (pc = "loop" /\ lastChunk \in {"done", "completion"}) =>
        (BuffersEmpty \/ FlushQueued)

\* C3: while a confirmation request is pending, a chunk that arrives changes
\* no chat entry and commits nothing: it only accumulates in the buffers.
C3_NoFlushWhilePending ==
    [][(confirmationOptions # 0 /\ confirmationOptions' # 0
        /\ handled' = handled + 1) =>
           /\ chatHistory' = chatHistory
           /\ updateQueue' = updateQueue
           /\ lastUpdateTime' = lastUpdateTime]_vars

\* C4: after a rejection the stream is abandoned: no chunk it delivers and
\* no end of it appends to or mutates the chat history, now or at a later
\* render.
C4_AbandonedStreamIsNoOp ==
    [][(abandoned /\ (handled' # handled \/ pc' # pc)) =>
           /\ chatHistory' = chatHistory
           /\ updateQueue' = updateQueue]_vars

\* C5: in every reachable state at most one entry of the chat history has
\* isStreaming = true.
C5_AtMostOneStreaming == Cardinality(Streaming(chatHistory)) <= 1

\* An assistant entry was closed by a tool_calls batch and a later content
\* chunk opened the next in-progress entry.
C5_Witness ==
    \E i, j \in 1..Len(chatHistory) :
        /\ i < j
        /\ chatHistory[i].type = "assistant"
        /\ chatHistory[i].toolCalls # Absent
        /\ ~chatHistory[i].isStreaming
        /\ chatHistory[j].isStreaming

\* C6: after an error of the stream has been handled, no chat entry has
\* isStreaming = true.
C6_ErrorLeavesNoneStreaming ==
    (pc = "failed" /\ updateQueue = <<>>) => Streaming(chatHistory) = {}

\* C7: after the final flush and cleanup of a stream that ended normally, no
\* chat entry has isStreaming = true, also when the update that created the
\* in-progress entry ran only after the loop had finished.
C7_EndLeavesNoneStreaming == Settled => Streaming(chatHistory) = {}

\* C8: a stream of content chunks only is held in one assistant entry, never
\* one entry per chunk, and once the stream has been processed that entry's
\* content is the concatenation of the chunks in arrival order.
C8_ContentInOneEntry ==
    kinds = {"content"} =>
        /\ Cardinality(Assistants(chatHistory)) <= 1
        /\ Settled =>
              \E i \in 1..Len(chatHistory) :
                  /\ chatHistory[i].type = "assistant"
                  /\ chatHistory[i].content = received

\* C9: a flush commits only when a chunk is handled or the stream ends, at
\* the time of that event, and at least Throttle ms after the previous
\* commit (after the start of the stream, for the first); a chunk that
\* arrives sooner after a commit commits nothing.
C9_FlushRateLimited ==
    [][/\ (lastUpdateTime' # lastUpdateTime) =>
              /\ lastUpdateTime' - lastUpdateTime >= Throttle
              /\ lastUpdateTime' = now'
              /\ handled' = handled + 1 \/ (pc = "loop" /\ pc' = "done")
       /\ (~FlushQueued /\ FlushQueued') => lastUpdateTime' = now'
       /\ (handled' = handled + 1 /\ now' - lastUpdateTime < Throttle) =>
              /\ lastUpdateTime' = lastUpdateTime
              /\ lastChunk' # "completion" =>
                    (chatHistory' = chatHistory /\ updateQueue' = updateQueue)
      ]_vars

\* A content chunk arrived ShortGap ms after a commit and is held back.
C9_Witness ==
    /\ lastUpdateTime >= StartTime + Throttle
    /\ now - lastUpdateTime = ShortGap
    /\ lastChunk = "content"
    /\ accumulatedContent # ""
    /\ chatHistory[Len(chatHistory)].isStreaming

\* The entry of pre that the results of a tool-result step are for.
Matched(e, res) ==
    /\ e.type = "tool_call"
    /\ ~e.isStreaming
    /\ \E k \in 1..Len(res) : res[k].toolCall.id = e.toolCall[1].id

ToolEntries(h) == Cardinality({i \in 1..Len(h) : h[i].toolCall # Absent})

\* C11: the commit of a batch of n tool calls sets isStreaming = false and
\* toolCalls = the batch on the in-progress assistant entry, if there is one,
\* and appends exactly n tool_call entries at the end of the log, one per
\* call in batch order, each carrying its call; no other entry changes, and
\* a batch is committed at most once: the log never holds more tool entries
\* than calls were announced.
C11_BatchCommitted ==
    LET pre == callStep.pre
        post == callStep.post
    IN  /\ callStep.batch # <<>> =>
              LET batch == callStep.batch[1] IN
              /\ Len(post) = Len(pre) + Len(batch)
              /\ \A i \in 1..Len(pre) :
                    post[i] = IF pre[i].isStreaming
                              THEN [pre[i] EXCEPT !.isStreaming = FALSE,
                                                  !.toolCalls = Some(batch)]
                              ELSE pre[i]
              /\ \A k \in 1..Len(batch) :
                    /\ post[Len(pre) + k].type = "tool_call"
                    /\ post[Len(pre) + k].toolCall = Some(batch[k])
                    /\ ~post[Len(pre) + k].isStreaming
        /\ ToolEntries(chatHistory) <= announced

\* A batch of two calls was committed while an assistant entry was in
\* progress, and the log is the one the step produced.
C11_Witness ==
    /\ callStep.batch # <<>>
    /\ Len(callStep.batch[1]) = 2
    /\ \E i \in 1..Len(callStep.pre) : callStep.pre[i].isStreaming
    /\ chatHistory = callStep.post
    /\ ToolEntries(chatHistory) = announced

\* The change of entry e into f is one the in-progress assistant entry may
\* undergo.
StreamingChange(e, f) ==
    /\ e.isStreaming
    /\ e.type = "assistant"
    /\ f = [e EXCEPT !.content = f.content, !.isStreaming = f.isStreaming,
                     !.toolCalls = f.toolCalls]

\* The change of entry e into f is the conversion of a tool_call entry by a
\* result with the entry's call id.
ResultChange(e, f) ==
    /\ e.type = "tool_call"
    /\ \E rc \in ResultChunks :
          /\ rc.toolCall.id = e.toolCall[1].id
          /\ f = [e EXCEPT !.type = "tool_result",
                           !.content = ResultContent(rc.toolResult),
                           !.toolResult = Some(rc.toolResult)]

\* C12: while the stream is processed the log only grows at its end or is
\* changed in place: its length never decreases, every entry keeps its
\* index, and an entry changes only as the in-progress assistant entry
\* (content, isStreaming, toolCalls) or as a tool_call entry converted by
\* the result with its call id; so no user entry and no timestamp changes.
C12_AppendOrReplaceInPlace ==
    [][pc # "mount" =>
          /\ Len(chatHistory') >= Len(chatHistory)
          /\ \A i \in 1..Len(chatHistory) :
                \/ chatHistory'[i] = chatHistory[i]
                \/ StreamingChange(chatHistory[i], chatHistory'[i])
                \/ ResultChange(chatHistory[i], chatHistory'[i])
      ]_vars

\* The log holds the user entry, an assistant entry closed by a batch, a
\* converted tool_call entry and one that was not converted.
C12_Witness ==
    /\ chatHistory # <<>>
    /\ chatHistory[1].type = "user"
    /\ \E i, j, k \in 1..Len(chatHistory) :
          /\ chatHistory[i].type = "assistant"
          /\ chatHistory[i].toolCalls # Absent
          /\ chatHistory[j].type = "tool_result"
          /\ chatHistory[k].type = "tool_call"

\* The entries of h, and the appends queued in q, that report an error.
ErrorTexts == {"Error: " \o m : m \in ErrorMessages}
ErrorEntries(h) ==
    {i \in 1..Len(h) : h[i].type = "assistant" /\ h[i].content \in ErrorTexts}
ErrorAppends(q) ==
    {i \in 1..Len(q) : q[i].k = "append" /\ q[i].content \in ErrorTexts}

\* C13: when the stream throws, exactly one assistant entry "Error: <message>"
\* is appended (it is the last entry once the queued updates ran, and it is
\* not in progress), isStreaming and isProcessing are false, and
\* processInitialMessage ends normally; without an error there is no such
\* entry.
C13_ErrorAppendsOneEntry ==
    LET n == Cardinality(ErrorEntries(chatHistory))
             + Cardinality(ErrorAppends(updateQueue))
    IN  /\ pc # "failed" => n = 0
        /\ pc = "failed" =>
              /\ n = 1
              /\ ~isStreaming
              /\ ~isProcessing
              /\ updateQueue = <<>> =>
                    /\ ErrorEntries(chatHistory) = {Len(chatHistory)}
                    /\ ~chatHistory[Len(chatHistory)].isStreaming

\* The stream threw after content was committed, and the error entry is in
\* the log behind it.
C13_Witness ==
    /\ pc = "failed"
    /\ updateQueue = <<>>
    /\ Len(chatHistory) >= 3
    /\ ErrorEntries(chatHistory) = {Len(chatHistory)}

\* Number of complete assistant entries with content c in h, and of appends
\* of such an entry queued in q.
Completed(h, q, c) ==
    Cardinality({i \in 1..Len(h) : /\ h[i].type = "assistant"
                                   /\ h[i].content = c
                                   /\ ~h[i].isStreaming
                                   /\ h[i].toolCalls = Absent})
    + Cardinality({i \in 1..Len(q) : q[i].k = "append" /\ q[i].content = c})

\* What handling a completion chunk with content c does to the log: one
\* more complete assistant entry with that content, appended at the end with
\* the time of the chunk, or queued to be.
CompletionAppended(c) ==
    /\ Completed(chatHistory', updateQueue', c)
         = Completed(chatHistory, updateQueue, c) + 1
    /\ updateQueue' = <<>> =>
          chatHistory'[Len(chatHistory')] = AssistantEntry(c, now', FALSE)

C15_TokenCountLeavesHistory ==
    [][(handled' = handled + 1 /\ lastChunk' = "token_count") =>
           (chatHistory' = chatHistory /\ updateQueue' = updateQueue)]_vars

\* C15, amended: a token_count chunk itself only records the count and
\* leaves the buffers alone; the flush that follows every chunk is the only
\* way it changes the log, so the log, the queue and the displayed count
\* are unchanged when less than Throttle ms have passed since the last
\* commit, and the log is unchanged when nothing is buffered or queued.
C15_TokenCountOnlyThrottledFlush ==
    [][(handled' = handled + 1 /\ lastChunk' = "token_count") =>
           /\ lastTokenCount' \in TokenCounts
           /\ accumulatedContent' \in {accumulatedContent, ""}
           /\ pendingToolCalls' \in {pendingToolCalls, <<>>}
           /\ pendingToolResults' \in {pendingToolResults, <<>>}
           /\ now' - lastUpdateTime < Throttle =>
                 /\ chatHistory' = chatHistory
                 /\ updateQueue' = updateQueue
                 /\ tokenCount' = tokenCount
                 /\ accumulatedContent' = accumulatedContent
           /\ (BuffersEmpty /\ updateQueue = <<>>) =>
                 chatHistory' = chatHistory
      ]_vars

\* A token_count chunk was handled ShortGap ms after a commit, with content
\* buffered: the count is recorded, nothing is committed or displayed.
C15_Witness ==
    /\ lastChunk = "token_count"
    /\ lastUpdateTime >= StartTime + Throttle
    /\ now - lastUpdateTime = ShortGap
    /\ accumulatedContent # ""
    /\ lastTokenCount # 0
    /\ tokenCount = 0

\* The step is a call of rejectOperation.
Rejected ==
    /\ Len(resolutions') = Len(resolutions) + 1
    /\ resolutions'[Len(resolutions')].op = "rejectOperation"

\* C16: the rejection clears the pending request and resets the flags:
\* isProcessing and isStreaming false, tokenCount, processingTime and
\* processingStartTime 0; it appends no entry to the log and leaves the log
\* and the updates queued for it as they are.
C16_RejectionResets ==
    [][Rejected =>
          /\ confirmationOptions # 0
          /\ confirmationOptions' = 0
          /\ ~isProcessing'
          /\ ~isStreaming'
          /\ tokenCount' = 0
          /\ processingTime' = 0
          /\ processingStartTime' = 0
          /\ chatHistory' = chatHistory
          /\ updateQueue' = updateQueue
      ]_vars

\* A request was rejected; the step before, the token count and the
\* processing time had been displayed and an assistant entry was in the log,
\* which is still there.
C16_Witness ==
    /\ resolutions # <<>>
    /\ resolutions[Len(resolutions)].op = "rejectOperation"
    /\ answer = "none"
    /\ confirmationOptions = 0
    /\ ticks > 0
    /\ lastTokenCount # 0
    /\ tokenCount = 0
    /\ ~isProcessing
    /\ Len(chatHistory) >= 1
    /\ pc = "loop"

C18_PendingRequestKept ==
    [][/\ requests' - Len(resolutions') <= 1
       /\ (requests' = requests + 1 /\ confirmationOptions # 0) =>
              confirmationOptions' = confirmationOptions
      ]_vars

\* The timer should run: the component was rendered with isProcessing or
\* isStreaming set and no confirmation pending.
TimerWanted ==
    /\ rendered.isProcessing \/ rendered.isStreaming
    /\ rendered.confirmationOptions = 0

\* C19: an interval exists only while the component is rendered with
\* isProcessing or isStreaming set and no confirmation pending, and then
\* there is exactly one, so never more than one; it is torn down by the
\* render in which processing has stopped or a confirmation is pending, and
\* the render with both flags false and no confirmation pending sets
\* processingTime to 0.
C19_TimerFollowsFlags ==
    [][/\ intervals' = IF TimerWanted' THEN 1 ELSE 0
       /\ (rendered' # rendered /\ ~rendered'.isProcessing
           /\ ~rendered'.isStreaming /\ rendered'.confirmationOptions = 0) =>
              processingTime' = 0
      ]_vars

\* The timer had ticked and was torn down by the render of a confirmation
\* request that arrived while the stream was running.
C19_Witness ==
    /\ ticks > 0
    /\ intervals = 0
    /\ rendered.confirmationOptions # 0
    /\ rendered.isProcessing
    /\ processingTime > 0

\* The line is the one written for entry e when it was new: e has the line's
\* timestamp and tool call, its kind unless a result converted it since, and
\* a content the line's content begins.
LineOf(line, e) ==
    /\ line.timestamp = e.timestamp
    /\ line.type = e.type \/ (line.type = "tool_call" /\ e.type = "tool_result")
    /\ ("toolCall" \in DOMAIN line) = (e.toolCall # Absent)
    /\ e.toolCall # Absent => line.toolCall = e.toolCall
    /\ line.type = e.type =>
          /\ Len(line.content) <= Len(e.content)
          /\ SubSeq(e.content, 1, Len(line.content)) = line.content

\* C20: as long as no write has failed, once the logging effect has run for
\* the current log the session log has one line per entry of the log, in
\* the order of the log, none repeated and none skipped, however many
\* entries one update appended; and no line is ever written that is not
\* the line of the entry at its index.
C20_EveryEntryLoggedOnce ==
    ~writeFailed =>
        /\ Len(sessionLog) = lastChatHistoryLength
        /\ Len(sessionLog) <= Len(chatHistory)
        /\ \A i \in 1..Len(sessionLog) : LineOf(sessionLog[i], chatHistory[i])
        /\ loggedHistory = chatHistory => Len(sessionLog) = Len(chatHistory)

\* Three entries were appended by one update after the user entry had been
\* logged, and the effect has written them; one of them was converted since.
C20_Witness ==
    /\ ~writeFailed
    /\ loggedHistory = chatHistory
    /\ Len(sessionLog) = 4
    /\ callStep.batch # <<>>
    /\ Len(callStep.post) = Len(callStep.pre) + 2
    /\ \E i \in 1..4 : /\ sessionLog[i].type = "tool_call"
                        /\ chatHistory[i].type = "tool_result"

\* C21: a run of the logging effect, whether its write fails or not, raises
\* no error and leaves the log, the updates queued for it and every flag of
\* the interface as they are; it writes nothing or the lines of the new
\* entries, and remembers the length of the log either way, so a failure
\* does not keep the entries appended later from being written.
C21_LogFailureSwallowed ==
    [][loggedHistory' # loggedHistory =>
          LET new == NewEntries(chatHistory, lastChatHistoryLength) IN
          /\ pc' = pc
          /\ chatHistory' = chatHistory
          /\ updateQueue' = updateQueue
          /\ UNCHANGED <<isProcessing, isStreaming, processingTime,
                         tokenCount, confirmationOptions>>
          /\ lastChatHistoryLength' = Len(chatHistory)
          /\ \/ sessionLog' = sessionLog
             \/ sessionLog' = sessionLog \o
                    [i \in 1..Len(new) |-> JsonLine(new[i])]
      ]_vars

\* A write failed, so lines are missing, and the entry appended last, after
\* the failure, has its line at the end of the session log; the stream is
\* still being processed.
C21_Witness ==
    /\ writeFailed
    /\ loggedHistory = chatHistory
    /\ sessionLog # <<>>
    /\ Len(sessionLog) < Len(chatHistory)
    /\ LineOf(sessionLog[Len(sessionLog)], chatHistory[Len(chatHistory)])
    /\ pc = "loop"

\* C22: the text shown for a tool result.  A successful result shows its
\* output unchanged up to PreviewLimit characters, the first PreviewLimit
\* characters followed by "..." beyond that (never more than PreviewLimit + 3
\* characters), and the success marker when the output is empty; a failed
\* result shows the failure marker followed by the error message, or by
\* "Unknown error" when there is none.
C22_PreviewBounded ==
    Applied("ResultContent") =>
        LET r == arg[1].x
            shown == value[1]
        IN  /\ (r.success /\ r.output = "") => shown = SuccessText
            /\ (r.success /\ r.output # "" /\ Len(r.output) <= PreviewLimit)
                   => shown = r.output
            /\ (r.success /\ Len(r.output) > PreviewLimit)
                   => /\ Len(shown) = PreviewLimit + 3
                      /\ SubSeq(shown, 1, PreviewLimit)
                            = SubSeq(r.output, 1, PreviewLimit)
                      /\ SubSeq(shown, PreviewLimit + 1, PreviewLimit + 3)
                            = "..."
            /\ (~r.success /\ r.error # "")
                   => shown = FailurePrefix \o r.error
            /\ (~r.success /\ r.error = "")
                   => shown = FailurePrefix \o "Unknown error"

\* A 500-character output has been shown as 200 characters and the ellipsis
C22_Witness ==
    /\ Applied("ResultContent")
    /\ arg[1].x.success /\ Len(arg[1].x.output) = 500
    /\ value[1] = Text(PreviewLimit) \o "..."

\* a || b picks b when a is undefined or the empty string
Given(f) == f # Absent /\ f[1] # ""
FileTools == {"create_file", "str_replace_editor", "view_file"}
FileVerb(name) ==
    CASE name = "create_file" -> "Creating file: "
      [] name = "str_replace_editor" -> "Editing file: "
      [] name = "view_file" -> "Reading file: "

\* C23: the description of a call whose arguments parse is a function of its
\* name and arguments.  The three file tools give their verb followed by
\* path, or by file_path when path is absent; bash gives "Running command: "
\* followed by the command, cut to its first CommandLimit characters and
\* "..." when it is longer; search gives "Searching for: " and the query;
\* every other name gives "Using " and the name.
C23_DescriptionByName ==
    (Applied("Description") /\ arg[1].x.parses) =>
        LET c == arg[1].x
            d == value[1]
        IN  /\ (c.name \in FileTools /\ Given(c.path))
                   => d = FileVerb(c.name) \o c.path[1]
            /\ (c.name \in FileTools /\ ~Given(c.path)
                                     /\ c.file_path # Absent)
                   => d = FileVerb(c.name) \o c.file_path[1]
            /\ (c.name = "bash" /\ c.command # Absent
                                /\ Len(c.command[1]) <= CommandLimit)
                   => d = "Running command: " \o c.command[1]
            /\ (c.name = "bash" /\ c.command # Absent
                                /\ Len(c.command[1]) > CommandLimit)
                   => d = "Running command: "
                            \o SubSeq(c.command[1], 1, CommandLimit) \o "..."
            /\ (c.name = "search" /\ c.query # Absent)
                   => d = "Searching for: " \o c.query[1]
            /\ c.name \notin FileTools \cup {"bash", "search"}
                   => d = "Using " \o c.name

\* A command of more than CommandLimit characters has been described
C23_Witness ==
    /\ Applied("Description") /\ arg[1].x.parses
    /\ arg[1].x.name = "bash" /\ arg[1].x.command = Some(Text(CommandLimit + 1))
    /\ value[1] = "Running command: " \o Text(CommandLimit) \o "..."

\* C24: a flush whose batch holds a call with unparsable arguments commits
\* everything.  Each call of the batch, in order, gets an entry after the
\* entries that were there (and after the assistant entry the buffered
\* content opens); the entry of an unparsable call reads "Using " and the
\* name; the buffered content ends up in the assistant entry; every pending
\* result has replaced the entry of its call; nothing stays buffered and no
\* entry stays streaming.
C24_UnparsedCallCommitted ==
    Applied("FlushUpdater") =>
        LET s == arg[1].x
            out == value[1]
            batch == s.ptc[1]
            opened == IF s.acc # "" /\ ~s.se THEN 1 ELSE 0
            base == Len(s.h) + opened
            text == IF s.se THEN FindStreaming(s.h) ELSE base
            Resulted(i) ==
                \E k \in 1..Len(s.ptr) :
                    /\ s.ptr[k].toolCall.id = out.h[i].toolCall[1].id
                    /\ out.h[i].type = "tool_result"
                    /\ out.h[i].content = ResultContent(s.ptr[k].toolResult)
        IN  /\ out.acc = "" /\ out.ptc = <<>> /\ out.ptr = <<>>
            /\ Len(out.h) = base + Len(batch)
            /\ Streaming(out.h) = {}
            /\ \A k \in 1..Len(batch) :
                  LET e == out.h[base + k] IN
                  /\ e.toolCall = Some(batch[k])
                  /\ \/ /\ e.type = "tool_call"
                        /\ e.content = IF batch[k].parses
                                       THEN Description(batch[k])
                                       ELSE "Using " \o batch[k].name
                     \/ Resulted(base + k)
            /\ s.acc # "" =>
                  /\ out.h[text].type = "assistant"
                  /\ out.h[text].content =
                        (IF s.se THEN s.h[text].content ELSE "") \o s.acc
            /\ \A k \in 1..Len(s.ptr) :
                  \E i \in 1..Len(out.h) :
                      /\ out.h[i].toolCall # Absent
                      /\ out.h[i].toolCall[1].id = s.ptr[k].toolCall.id
                      /\ Resulted(i)
            /\ \A i \in 1..Len(s.h) :
                  (~s.h[i].isStreaming /\ s.h[i].type # "tool_call")
                      => out.h[i] = s.h[i]

\* A flush has committed an unparsable call after a parsable one, together
\* with buffered content and the result of an earlier call
C24_Witness ==
    /\ Applied("FlushUpdater")
    /\ arg[1].x.ptc = Some(<<BashCall, UnparsedCall>>)
    /\ arg[1].x.acc = " there" /\ arg[1].x.se
    /\ arg[1].x.ptr # <<>> /\ arg[1].x.ptr[1].toolCall = EarlierCall
    /\ Len(value[1].h) = 5
    /\ value[1].h[2].type = "tool_result"
    /\ value[1].h[3].content = "Hi there"
    /\ value[1].h[4].content = "Running command: rm file.txt"
    /\ value[1].h[5].content = "Using bash"

Exited == cli.exit # Absent
Failed == cli.event \in {"throw", "uncaughtException", "unhandledRejection"}
NoCredentials == ~ApiKey(cli.opts[1])
NoTerminal ==
    /\ cli.event = "none" /\ ApiKey(cli.opts[1]) /\ ~cli.opts[1].prompt
    /\ ~cli.opts[1].forceTty /\ ~cli.opts[1].isTTY

\* C25 as stated: the exit code is 1 exactly when the credentials are missing
\* or an error went unhandled (an uncaught exception, an unhandled rejection,
\* an error thrown in the command action or in headless processing), and 0
\* in every other case.
C25_ExitCodes ==
    Exited =>
        /\ cli.exit[1] \in {0, 1}
        /\ cli.exit[1] = 1 <=>
              (Failed \/ (cli.event = "none" /\ NoCredentials))

\* C25, amended: the exit code is also 1 when the interactive interface is
\* asked for without a terminal and without --force-tty.
C25_ExitCodesWithTerminalCheck ==
    Exited =>
        /\ cli.exit[1] \in {0, 1}
        /\ cli.exit[1] = 1 <=>
              (Failed \/ (cli.event = "none" /\ NoCredentials) \/ NoTerminal)

\* The process has exited with 1 for want of a terminal
C25_Witness == Exited /\ NoTerminal /\ cli.exit = Some(1)

\* C26: while a confirmation is pending the input handler is told so, the
\* input area, status bar, spinner and banner are not rendered, and the
\* history is rendered once, with isConfirmationActive, together with the
\* dialog; while none is pending the history is rendered once without
\* isConfirmationActive and there is no dialog.
C26_FrozenBehindDialog ==
    LET tree == RenderTree
        pending == confirmationOptions # 0
        Rendered(el) == {i \in 1..Len(tree) : tree[i].el = el}
        histories == Rendered("ChatHistory")
    IN  /\ InputHandlerProps.isConfirmationActive = pending
        /\ Cardinality(histories) = 1
        /\ \A i \in histories :
              tree[i].entries = chatHistory /\ tree[i].flag = pending
        /\ Cardinality(Rendered("ConfirmationDialog"))
              = IF pending THEN 1 ELSE 0
        /\ pending =>
              \A i \in 1..Len(tree) :
                  tree[i].el \notin
                      {"ChatInput", "StatusBar", "LoadingSpinner", "Banner"}

\* A request is pending in the middle of a turn: history and dialog only
C26_Witness ==
    /\ confirmationOptions # 0 /\ isProcessing /\ chatHistory # <<>>
    /\ RenderTree =
          <<Element("ContextTooltip", <<>>, FALSE),
            Element("ChatHistory", chatHistory, TRUE),
            Element("ConfirmationDialog", <<>>, FALSE)>>

\* C27: a call of handleGlobalShortcuts returns true and toggles
\* showContextTooltip when the key is Ctrl+I, and returns false and changes
\* no state of the component for any other key; after two Ctrl+I in a row
\* the tooltip is as visible as before the first.
C27_CtrlIToggles ==
    [][keys' # keys =>
          LET n == Len(keys')
              key == keys'[n].key
          IN  /\ IsCtrlI(key) =>
                    /\ value' = Some(TRUE)
                    /\ showContextTooltip' = ~showContextTooltip
              /\ ~IsCtrlI(key) =>
                    /\ value' = Some(FALSE)
                    /\ showContextTooltip' = showContextTooltip
              /\ (n >= 2 /\ IsCtrlI(key) /\ IsCtrlI(keys'[n - 1].key)) =>
                    showContextTooltip' = keys'[n - 1].before
              /\ UNCHANGED <<chatHistory, updateQueue, isProcessing,
                             isStreaming, processingTime, tokenCount,
                             confirmationOptions>>
      ]_vars

\* Ctrl+I was pressed twice and the tooltip is hidden again
C27_Witness ==
    /\ Len(keys) = 2
    /\ IsCtrlI(keys[1].key) /\ IsCtrlI(keys[2].key)
    /\ ~keys[1].before /\ keys[2].before /\ ~showContextTooltip
    /\ value = Some(TRUE)

\* The ids of the calls announced so far, and the entries of h for a call
AnnouncedIds == {Digits[k + 1] : k \in 1..announced}
EntriesOf(id, h) ==
    {i \in 1..Len(h) : h[i].toolCall # Absent /\ h[i].toolCall[1].id = id}
Uncommitted(id) ==
    /\ pendingToolCalls # <<>>
    /\ \E k \in 1..Len(pendingToolCalls[1]) : pendingToolCalls[1][k].id = id

\* C28: no announced call is lost.  A call that a tool_calls chunk has
\* announced either has exactly one entry (tool_call or tool_result) in the
\* history or is in the one uncommitted batch, whatever arrives between two
\* flushes.
C28_NoAnnouncedCallLost ==
    \A id \in AnnouncedIds :
        \/ Cardinality(EntriesOf(id, chatHistory)) = 1 /\ ~Uncommitted(id)
        \/ EntriesOf(id, chatHistory) = {} /\ Uncommitted(id)

\* A content chunk has just been handled
ContentHandled == handled' = handled + 1 /\ lastChunk' = "content"

\* C29: text that arrives after a tool_calls chunk is not placed before that
\* batch's entries.  When a content chunk arrives while a batch announced
\* earlier is still uncommitted and its flush commits the batch, the
\* assistant text in front of the batch's entries is no longer than the
\* text received before the chunk.
C29_LaterTextAfterCalls ==
    [][(ContentHandled /\ pendingToolCalls # <<>> /\ callStep' # callStep)
          => Len(StreamedText(callStep'.pre)) <= Len(received)
      ]_vars

\* The entry a completion chunk appended
IsCompletion(e) ==
    e.type = "assistant" /\ e.content \in CompletionTexts /\ e.content # ""

\* C30: content received after a completion chunk never appears before the
\* completion's entry.  A content chunk that arrives when nothing is
\* buffered or queued leaves every entry in front of a completion entry as
\* it was.
C30_LaterTextAfterCompletion ==
    [][(ContentHandled /\ accumulatedContent = "" /\ updateQueue = <<>>)
          => \A k \in 1..Len(chatHistory) :
                IsCompletion(chatHistory[k]) =>
                    \A i \in 1..(k - 1) : chatHistory'[i] = chatHistory[i]
      ]_vars

\* A batch or a tool result is committed in this step
Committed == callStep' # callStep \/ resultStep' # resultStep

\* The text flushes have written: the contents of the assistant entries in
\* log order, without the entries of completion chunks and of errors.
RECURSIVE FlushedText(_)
FlushedText(h) ==
    IF h = <<>> THEN ""
    ELSE (IF /\ Head(h).type = "assistant"
             /\ Head(h).content \notin CompletionTexts \cup ErrorTexts
          THEN Head(h).content ELSE "") \o FlushedText(Tail(h))

\* C31: a committed batch or tool result closes the in-progress assistant
\* entry.  After the commit no entry is streaming and the handle is null, and
\* the next flush that writes content appends a new assistant entry holding
\* exactly that content after the entries that were there, and leaves
\* the earlier assistant entries' contents alone.
C31_CommitClosesEntry ==
    [][/\ Committed => (~streamingEntry' /\ Streaming(chatHistory') = {})
       /\ (/\ ToolEntries(chatHistory) > 0
           /\ ~streamingEntry /\ Streaming(chatHistory) = {}
           /\ FlushedText(chatHistory') # FlushedText(chatHistory))
          => LET n == Len(chatHistory) IN
             /\ \E j \in (n + 1)..Len(chatHistory') :
                    /\ chatHistory'[j].type = "assistant"
                    /\ chatHistory'[j].content \notin
                           CompletionTexts \cup ErrorTexts
                    /\ FlushedText(chatHistory') =
                           FlushedText(chatHistory) \o chatHistory'[j].content
             /\ \A i \in Assistants(chatHistory) :
                    chatHistory'[i].content = chatHistory[i].content
      ]_vars

\* Text flushed after a committed batch sits in an entry of its own after the
\* batch's entries
C31_Witness ==
    /\ Len(chatHistory) = 5
    /\ chatHistory[2].type = "assistant" /\ ~chatHistory[2].isStreaming
    /\ chatHistory[3].type = "tool_call" /\ chatHistory[4].type = "tool_call"
    /\ chatHistory[5].type = "assistant" /\ chatHistory[5].isStreaming
    /\ chatHistory[5].content = lastText /\ lastChunk = "content"

\* C32: content is conserved.  At every point the text the flushes have
\* written into assistant entries, in log order, followed by the buffer, is
\* the text of the content chunks received so far, and while the loop runs
\* the streaming handle is set only while some entry is streaming.
C32_ContentConserved ==
    /\ FlushedText(chatHistory) \o accumulatedContent = received
    /\ (pc = "loop" /\ streamingEntry) => Streaming(chatHistory) # {}

\* Two chunks are in a streaming entry and a third is still buffered
C32_Witness ==
    /\ pc = "loop" /\ streamingEntry
    /\ \E i \in Streaming(chatHistory) : chatHistory[i].content = "Hi there"
    /\ accumulatedContent = "Hi"
    /\ received = "Hi thereHi"

\* C33: once a stream in which a token_count chunk arrived has ended
\* normally, the displayed tokenCount is the value of the last such chunk.
C33_LastTokenCountShown ==
    (pc = "done" /\ "token_count" \in kinds /\ lastTokenCount # 0)
        => tokenCount = lastTokenCount

\* C34: after a rejection, for the rest of the turn, isProcessing and
\* isStreaming are false and tokenCount and processingTime are 0, whatever
\* the stream of the rejected turn still delivers.
C34_RejectedTurnStaysReset ==
    abandoned =>
        /\ ~isProcessing /\ ~isStreaming
        /\ tokenCount = 0 /\ processingTime = 0

Approved ==
    /\ Len(resolutions') = Len(resolutions) + 1
    /\ resolutions'[Len(resolutions')].op = "confirmOperation"

\* C35: the deferred callback of an approval changes only the gate: it
\* delivers the approval and sets confirmationOptions to null, and
\* isProcessing, isStreaming, tokenCount, processingTime, processingStartTime,
\* the chat history and the updates queued for it are as before.
C35_ApprovalChangesOnlyGate ==
    [][Approved =>
          /\ confirmationOptions # 0
          /\ confirmationOptions' = 0
          /\ UNCHANGED <<isProcessing, isStreaming, tokenCount,
                         processingTime, processingStartTime>>
          /\ chatHistory' = chatHistory
          /\ updateQueue' = updateQueue
      ]_vars

\* A request was approved in the middle of a turn whose token count and
\* user entry are on display and whose timer has started
C35_Witness ==
    /\ resolutions # <<>>
    /\ resolutions[Len(resolutions)].op = "confirmOperation"
    /\ confirmationOptions = 0 /\ answer = "none"
    /\ isProcessing /\ isStreaming /\ tokenCount # 0
    /\ processingStartTime # 0
    /\ chatHistory # <<>>
    /\ pc = "loop"

\* C36: only an increase of the log's length is written.  A write appends
\* the lines of the entries beyond the remembered length and nothing else;
\* lines once written are never rewritten; a run of the effect for a log of
\* the remembered length (entries replaced in place) writes nothing; and the
\* remembered length never goes back, so entries at or below it, written
\* or not, are never written later.
C36_OnlyGrowthIsLogged ==
    [][/\ sessionLog' # sessionLog =>
             LET added == Len(chatHistory) - lastChatHistoryLength IN
             /\ added > 0
             /\ Len(sessionLog') = Len(sessionLog) + added
             /\ \A k \in 1..added :
                   sessionLog'[Len(sessionLog) + k] =
                       JsonLine(chatHistory[lastChatHistoryLength + k])
       /\ Len(sessionLog') >= Len(sessionLog)
       /\ SubSeq(sessionLog', 1, Len(sessionLog)) = sessionLog
       /\ lastChatHistoryLength' >= lastChatHistoryLength
       /\ loggedHistory' # loggedHistory =>
             lastChatHistoryLength' = Len(chatHistory)
      ]_vars

\* The user entry's write failed and it is missing from the file; the two
\* entries of a batch were written, and one was upgraded to a tool_result
\* since, which the file does not show.
C36_Witness ==
    /\ writeFailed /\ loggedHistory = chatHistory
    /\ Len(chatHistory) = 3 /\ Len(sessionLog) = 2
    /\ sessionLog[1].type = "tool_call" /\ sessionLog[2].type = "tool_call"
    /\ chatHistory[2].type = "tool_result"

\* The results of a tool-result step none of which has a tool_call entry in
\* the log the step ran on.
Unmatched(rs) ==
    /\ rs.res # <<>>
    /\ \A i \in 1..Len(rs.pre) : ~Matched(rs.pre[i], rs.res)

\* C37: a tool-result step whose results match no tool_call entry of the log
\* changes no entry's kind or content and keeps the length of the log, and
\* every tool-result step empties pendingToolResults, so such a result is
\* not there any more when a later flush finds a matching tool_call entry.
C37_UnmatchedResultDiscarded ==
    [][resultStep' # resultStep =>
          /\ pendingToolResults' = <<>>
          /\ Unmatched(resultStep') =>
                /\ Len(resultStep'.post) = Len(resultStep'.pre)
                /\ \A i \in 1..Len(resultStep'.pre) :
                      /\ resultStep'.post[i].type = resultStep'.pre[i].type
                      /\ resultStep'.post[i].content = resultStep'.pre[i].content
      ]_vars

\* The result of call "1" was flushed into a log without a tool_call entry,
\* the call was announced and committed afterwards, and at the end of the
\* stream its entry is still a tool_call while nothing is pending.
C37_Witness ==
    /\ pc = "done"
    /\ Unmatched(resultStep)
    /\ pendingToolResults = <<>>
    /\ updateQueue = <<>>
    /\ \E i \in 1..Len(chatHistory) :
          /\ chatHistory[i].type = "tool_call"
          /\ chatHistory[i].toolCall[1].id = "1"

\* One run of processInitialMessage on a short stream, with React's renders:
\* the effect starts the run, the loop takes the next chunk, and the stream
\* ends or throws.
MaxTurnChunks == 2      \* chunks of the stream of this run

TurnNext ==
    \/ Mount
    \/ handled < MaxTurnChunks /\ OnContent
    \/ handled < MaxTurnChunks /\ OnCompletion
    \/ handled < MaxTurnChunks /\ OnTokenCount
    \/ handled < MaxTurnChunks /\ OnToolCalls
    \/ handled < MaxTurnChunks /\ OnToolResult
    \/ handled < MaxTurnChunks /\ OnDone
    \/ StreamEnd
    \/ StreamError
    \/ Render

\* The steps of the run itself.  The event loop resumes the run whenever the
\* stream has settled, so the run is not left waiting for ever; nothing is
\* assumed about when React renders.
Turn ==
    \/ Mount
    \/ OnContent
    \/ OnCompletion
    \/ OnTokenCount
    \/ OnToolCalls
    \/ OnToolResult
    \/ OnDone
    \/ StreamEnd
    \/ StreamError

TurnSpec == Init /\ [][TurnNext]_vars /\ WF_vars(Turn)

\* The run has returned.
Ended == pc \in {"done", "failed"}

\* The buffers as their declarations leave them.
FreshBuffers ==
    /\ ~streamingEntry
    /\ accumulatedContent = ""
    /\ lastTokenCount = 0
    /\ pendingToolCalls = <<>>
    /\ pendingToolResults = <<>>

\* C38: every run of processInitialMessage over a finite stream returns;
\* when it has returned, after a normal end or an error, isProcessing and
\* isStreaming are false and processingStartTime is 0; the run starts on
\* buffers of its own, and once it has returned no chunk is handled on them.
C38_RunEndsIdle ==
    /\ <>Ended
    /\ [](Ended => ~isProcessing /\ ~isStreaming /\ processingStartTime = 0)
    /\ [][/\ (pc = "mount" /\ pc' # pc) => FreshBuffers'
          /\ Ended => /\ pc' = pc
                      /\ handled' = handled
                      /\ received' = received]_vars

\* The stream threw after two chunks, with text still in the buffer, and
\* the run has returned with the flags cleared.
C38_Witness ==
    /\ pc = "failed"
    /\ handled >= 2
    /\ accumulatedContent # ""
    /\ ~isProcessing /\ ~isStreaming /\ processingStartTime = 0

\* The command action took the headless branch and the run is over, by a
\* return or by the catch clause.
HeadlessRunOver ==
    /\ Exited
    /\ cli.opts[1].prompt /\ ApiKey(cli.opts[1])
    /\ cli.opts[1].throws # "chdir"
    /\ cli.event \in {"none", "throw"}

\* The entries that are to give a line.
Emitting(e) ==
    \/ e.type \in {"user", "assistant"}
    \/ e.type = "tool_result" /\ e.toolCall # Absent

\* The JSON object is the message of entry e.
MessageOf(e, object) ==
    /\ object.role = (CASE e.type = "user" -> "user"
                        [] e.type = "assistant" -> "assistant"
                        [] e.type = "tool_result" -> "tool")
    /\ object.content = e.content
    /\ "tool_calls" \in DOMAIN object
          <=> (e.type = "assistant" /\ e.toolCalls # Absent
               /\ e.toolCalls[1] # <<>>)
    /\ "tool_calls" \in DOMAIN object =>
          /\ Len(object.tool_calls) = Len(e.toolCalls[1])
          /\ \A j \in 1..Len(object.tool_calls) :
                /\ object.tool_calls[j].id = e.toolCalls[1][j].id
                /\ object.tool_calls[j].type = "function"
                /\ object.tool_calls[j].function.name = e.toolCalls[1][j].name
    /\ "tool_call_id" \in DOMAIN object <=> e.type = "tool_result"
    /\ e.type = "tool_result" => object.tool_call_id = e.toolCall[1].id

\* The lines are the messages of the entries that give one, in their order;
\* or, after an error, the one error object.
HeadlessLines(lines) ==
    /\ \A k \in 1..Len(lines) : lines[k].json # Absent
    /\ IF cli.event = "throw"
       THEN /\ Len(lines) = 1
            /\ DOMAIN lines[1].json[1] = {"role", "content"}
            /\ lines[1].json[1].role = "assistant"
            /\ lines[1].json[1].content \in ErrorTexts
            /\ cli.exit = Some(1)
       ELSE LET shown == SelectSeq(cli.reply[1], Emitting) IN
            /\ Len(lines) = Len(shown)
            /\ \A k \in 1..Len(lines) : MessageOf(shown[k], lines[k].json[1])

\* C39: when a headless run is over, standard output holds JSON objects
\* only, one line each: after a return the messages of the user, assistant
\* and tool_result-with-toolCall entries in entry order (role user,
\* assistant with tool_calls when the entry has any, tool with the call's
\* id), nothing for the other entries; after an error the one assistant
\* object "Error: <message>", with exit code 1.
C39_HeadlessOutput == HeadlessRunOver => HeadlessLines(cli.out)

====
